---- MODULE Spec2Model ----
(***************************************************************************)
(* kookykangaroo: Markdown -> tree (Tree Builder) -> graph store (Graph    *)
(* Writer) -> Markdown (Graph Reader).                                     *)
(*                                                                         *)
(* Strings are sequences of one-character strings, so that formatting      *)
(* ("node_{n}", '#' * level, strip, join) is computed, not assumed.        *)
(* Python objects (MarkdownNode) live in the heap `nodes`: a node is its   *)
(* index in that sequence, the root is index 1, parent 0 is None.          *)
(***************************************************************************)
EXTENDS Integers, Sequences, FiniteSets, TLC

VARIABLES
    todo,            \* Tree Builder: elements still to be visited by _process_element
    nodes,           \* heap of MarkdownNode objects; nodes[1] is processor.root
    heading_stack,   \* MarkdownTreeProcessor.heading_stack (indices into nodes)
    current_node,    \* MarkdownTreeProcessor.current_node
    bstatus,         \* Tree Builder position: "running", "done", "ValueError"
    pc,              \* position of the running command / API call
    cmd,             \* the command being run: "none", "create", "traverse"
    driver,          \* Neo4jGraph.driver: "none", "open", "closed"
    store,           \* the graph store: [nodes: Seq(record), edges: Seq([from, to])]
    stack,           \* work stack of (parent, child_index) of the writer loops
    node_count,      \* node_count of _create_nodes
    issued,          \* statements of this create_graph run that have succeeded
    exit_code,       \* process exit code: NoExit until the command ends
    log,             \* ERROR messages written by logger.error
    failure,         \* failure classes that occurred during the command
    lines,           \* markdown_lines of traverse_and_print
    pending,         \* children still to be visited by _traverse_node, in visit order
    callid,          \* node_id of the _traverse_node call whose get_children is due
    markdown,        \* return value of traverse_and_print
    stdout,          \* what print(markdown) wrote
    script,          \* result of get_cypher_script
    written          \* the tree whose create_graph last ran to completion on this store

vars == << todo, nodes, heading_stack, current_node, bstatus, pc, cmd, driver,
           store, stack, node_count, issued, exit_code, log, failure, lines,
           pending, callid, markdown, stdout, script, written >>

builderVars == << todo, nodes, heading_stack, current_node, bstatus >>
cmdVars == << pc, cmd, driver, store, stack, node_count, issued, exit_code, log,
              failure, lines, pending, callid, markdown, stdout, script, written >>

(***************************************************************************)
(* Bounds                                                                  *)
(***************************************************************************)
\* Longest list of top-level block elements of a document given to the Tree Builder.
MaxElems == 3
\* Longest list of top-level block elements of a file given to create-graph.
MaxDocLen == 3
\* Most nodes of a tree handed to the Graph Writer's methods directly.
MaxNodes == 4
\* Most sibling blocks under the one heading of a wide document.
MaxSiblings == 10
\* Most characters of a node content handed to get_cypher_script.
MaxContentLen == 3

(***************************************************************************)
(* Strings                                                                 *)
(***************************************************************************)
Digits == << "0", "1", "2", "3", "4", "5", "6", "7", "8", "9" >>

IsDigit(c) == \E i \in 1..Len(Digits) : Digits[i] = c

\* int(c) for a one-character string holding a decimal digit
DigitValue(c) == (CHOOSE i \in 1..Len(Digits) : Digits[i] = c) - 1

\* The characters str.isspace() holds for, which str.strip() removes, among those a
\* string of this module can hold: tab, line feed, form feed, carriage return and
\* space, then U+000B, U+001C..U+001F, U+0085, U+00A0 and U+1680 written as the
\* characters themselves. (U+2000..U+200A, U+2028, U+2029, U+202F, U+205F and
\* U+3000 are whitespace too; no string here holds them.)
WhiteSpace ==
    { "\t", "\n", "\f", "\r", " ",
      "", "", "", "", "", "", " ", " " }

IsSpace(c) == c \in WhiteSpace

RECURSIVE LStrip(_)
LStrip(s) == IF s /= << >> /\ IsSpace(Head(s)) THEN LStrip(Tail(s)) ELSE s

RECURSIVE RStrip(_)
RStrip(s) ==
    IF s /= << >> /\ IsSpace(s[Len(s)]) THEN RStrip(SubSeq(s, 1, Len(s) - 1)) ELSE s

\* str.strip()
Strip(s) == RStrip(LStrip(s))

RECURSIVE Concat(_)
\* "".join(parts)
Concat(parts) == IF parts = << >> THEN << >> ELSE Head(parts) \o Concat(Tail(parts))

(***************************************************************************)
(* Elements handed over by the block parser (xml.etree Element)            *)
(***************************************************************************)
\* tag, text (before the first child), children, tail (text after the end tag);
\* a text or tail of None is the empty string
El(tag, text, kids, tail) == [ tag |-> tag, text |-> text, kids |-> kids, tail |-> tail ]

RECURSIVE IterText(_)
\* "".join(element.itertext()): the element's text, then for each child in document
\* order the child's itertext and the child's tail (the element's own tail is left out)
IterText(e) ==
    e.text \o Concat([ i \in 1..Len(e.kids) |-> IterText(e.kids[i]) \o e.kids[i].tail ])

(***************************************************************************)
(* MarkdownNode                                                            *)
(***************************************************************************)
NoneId == << >>

MarkdownNode(node_type, content, level) ==
    [ node_type |-> node_type, content |-> content, level |-> level,
      parent |-> 0, children |-> << >>, id |-> NoneId ]

\* parent.add_child(child), with the child object appended to the heap
AddChild(heap, parent, child) ==
    LET c == Len(heap) + 1
    IN  [ i \in 1..c |->
            IF i = c THEN [ child EXCEPT !.parent = parent ]
            ELSE IF i = parent THEN [ heap[i] EXCEPT !.children = @ \o << c >> ]
            ELSE heap[i] ]

(***************************************************************************)
(* Tree Builder: MarkdownTreeProcessor                                     *)
(***************************************************************************)
\* MarkdownTreeProcessor.__init__
NewProcessor ==
    [ nodes |-> << MarkdownNode("root", << >>, 0) >>,
      heading_stack |-> << 1 >>, current_node |-> 1, status |-> "running" ]

\* variant: the pop loop stops at a heading of the same level
PopCondGt(heap, hs, level) == Len(hs) > 1 /\ heap[hs[Len(hs)]].level > level

\* the condition of the pop loop
PopCond(heap, hs, level) == Len(hs) > 1 /\ heap[hs[Len(hs)]].level >= level

RECURSIVE PopStack(_, _, _)
\* while len(heading_stack) > 1 and heading_stack[-1].level >= level: pop
PopStack(heap, hs, level) ==
    IF PopCond(heap, hs, level)
    THEN PopStack(heap, SubSeq(hs, 1, Len(hs) - 1), level)
    ELSE hs

\* element.tag.startswith("h") and len(element.tag) == 2
IsHeadingTag(tag) == Len(tag) = 2 /\ tag[1] = "h"

\* One call of _process_element, without the recursion into the children.
\* int(element.tag[1]) raises ValueError on a character that is no digit.
ProcessElement(p, e) ==
    IF IsHeadingTag(e.tag)
    THEN IF ~IsDigit(e.tag[2])
         THEN [ p EXCEPT !.status = "ValueError" ]
         ELSE LET level == DigitValue(e.tag[2])
                  content == Strip(IterText(e))
                  hs == PopStack(p.nodes, p.heading_stack, level)
                  heap == AddChild(p.nodes, hs[Len(hs)],
                                   MarkdownNode("heading", content, level))
              IN  [ p EXCEPT !.nodes = heap,
                             !.heading_stack = hs \o << Len(heap) >>,
                             !.current_node = Len(heap) ]
    ELSE IF e.tag = << "p" >>
    THEN LET content == Strip(IterText(e))
         IN  IF content /= << >>
             THEN [ p EXCEPT !.nodes = AddChild(p.nodes, p.current_node,
                                        MarkdownNode("paragraph", content, 0)) ]
             ELSE p
    ELSE p

RECURSIVE RunProcessor(_, _)
\* _process_element(root) to the end: pre-order over the element tree
RunProcessor(p, work) ==
    IF work = << >> THEN [ p EXCEPT !.status = "done" ]
    ELSE LET q == ProcessElement(p, Head(work))
         IN  IF q.status = "ValueError" THEN q
             ELSE RunProcessor(q, Head(work).kids \o Tail(work))

\* MarkdownParser.parse on the element tree the block parser built
Parse(doc) == RunProcessor(NewProcessor, << doc >>)

(***************************************************************************)
(* Documents                                                               *)
(***************************************************************************)
Heading(l, text) == El(<< "h", Digits[l + 1] >>, text, << >>, << >>)
Para(text) == El(<< "p" >>, text, << >>, << >>)

\* Block elements the parser emits: h1..h6, p, hr, ul/li, blockquote
Blocks ==
    { Heading(l, << "a" >>) : l \in 1..6 }
    \cup { Heading(2, << " " >>),
           Para(<< "b" >>), Para(<< " ", "c", " " >>), Para(<< " " >>),
           El(<< "h", "r" >>, << >>, << >>, << >>),
           El(<< "u", "l" >>, << >>, << El(<< "l", "i" >>, << "d" >>, << >>, << >>) >>, << >>),
           El(<< "b", "l", "o", "c", "k", "q", "u", "o", "t", "e" >>, << >>,
              << Para(<< "e" >>) >>, << >>),
           Para(<< "\r", "\f" >>),
           El(<< "p" >>, << "f" >>,
              << El(<< "e", "m" >>, << "g" >>, << >>, << "h", " " >>) >>, << >>) }

SeqsUpTo(S, n) == UNION { [ 1..k -> S ] : k \in 0..n }

\* The root element of a converted document
Div(kids) == El(<< "d", "i", "v" >>, << >>, kids, << >>)

Docs == { Div(k) : k \in SeqsUpTo(Blocks, MaxElems) }

(***************************************************************************)
(* Initial values of the command state                                     *)
(***************************************************************************)
NoExit == << >>
EmptyStore == [ nodes |-> << >>, edges |-> << >> ]

CmdIdle ==
    /\ pc = "idle"
    /\ cmd = "none"
    /\ driver = "none"
    /\ store = EmptyStore
    /\ stack = << >>
    /\ node_count = 0
    /\ issued = 0
    /\ exit_code = NoExit
    /\ log = << >>
    /\ failure = { }
    /\ lines = << >>
    /\ pending = << >>
    /\ callid = << >>
    /\ markdown = << >>
    /\ stdout = << >>
    /\ script = << >>
    /\ written = << >>

(***************************************************************************)
(* Specification of the Tree Builder, one _process_element call per step   *)
(***************************************************************************)
InitBuild ==
    /\ \E doc \in Docs : todo = << doc >>
    /\ nodes = NewProcessor.nodes
    /\ heading_stack = NewProcessor.heading_stack
    /\ current_node = NewProcessor.current_node
    /\ bstatus = "running"
    /\ CmdIdle

\* _process_element(element): the element itself, its children queued next
BuildStep ==
    /\ bstatus = "running"
    /\ todo /= << >>
    /\ LET e == Head(todo)
           q == ProcessElement([ nodes |-> nodes, heading_stack |-> heading_stack,
                                 current_node |-> current_node, status |-> "running" ], e)
       IN  /\ nodes' = q.nodes
           /\ heading_stack' = q.heading_stack
           /\ current_node' = q.current_node
           /\ bstatus' = q.status
           /\ todo' = IF q.status = "ValueError" THEN todo ELSE e.kids \o Tail(todo)
    /\ UNCHANGED cmdVars

\* run() returns and parse() returns processor.root
BuildReturn ==
    /\ bstatus = "running"
    /\ todo = << >>
    /\ bstatus' = "done"
    /\ UNCHANGED << todo, nodes, heading_stack, current_node >>
    /\ UNCHANGED cmdVars

NextBuild == BuildStep \/ BuildReturn

SpecBuild == InitBuild /\ [][NextBuild]_vars

(***************************************************************************)
(* Ids and string order                                                    *)
(***************************************************************************)
RECURSIVE Decimal(_)
\* str(n) for n >= 0
Decimal(n) == IF n < 10 THEN << Digits[n + 1] >> ELSE Decimal(n \div 10) \o << Digits[(n % 10) + 1] >>

\* f"node_{n}"
NodeId(n) == << "n", "o", "d", "e", "_" >> \o Decimal(n)

\* The characters of ids in code point order
CharOrder == Digits \o << "_", "a", "b", "c", "d", "e", "f", "g", "h", "i", "j", "k",
                          "l", "m", "n", "o", "p", "q", "r", "s", "t", "u", "v", "w",
                          "x", "y", "z" >>

Code(c) == CHOOSE i \in 1..Len(CharOrder) : CharOrder[i] = c

RECURSIVE StrLess(_, _)
\* a < b for strings: lexicographic by code point
StrLess(a, b) ==
    IF b = << >> THEN FALSE
    ELSE IF a = << >> THEN TRUE
    ELSE IF Head(a) = Head(b) THEN StrLess(Tail(a), Tail(b))
    ELSE Code(Head(a)) < Code(Head(b))

(***************************************************************************)
(* The graph store and the statements the program issues against it.       *)
(* A stored node is a property map; an optional property is a sequence of  *)
(* length 0 (absent) or 1. Edges join positions of store.nodes.            *)
(***************************************************************************)
Absent == << >>
Present(v) == << v >>

\* variant: the wipe deletes nothing
WipeKeeps(st) == st

\* MATCH (n) DETACH DELETE n
WipeEffect(st) == EmptyStore

\* CREATE (n:Node {id: $id, type: $type, content: $content[, level: $level]})
CreateNodeEffect(st, rec) == [ st EXCEPT !.nodes = Append(@, rec) ]

\* positions of the stored nodes with the given id property, ascending
Matching(st, id) ==
    SelectSeq([ i \in 1..Len(st.nodes) |-> i ], LAMBDA i : st.nodes[i].id = id)

\* MATCH (parent:Node {id: $parent_id}) MATCH (child:Node {id: $child_id})
\* CREATE (parent)-[:CONTAINS]->(child): one edge per matched pair
CreateRelEffect(st, parent_id, child_id) ==
    LET ps == Matching(st, parent_id)
        cs == Matching(st, child_id)
    IN  [ st EXCEPT !.edges = @ \o
            [ k \in 1..(Len(ps) * Len(cs)) |->
                [ from |-> ps[((k - 1) \div Len(cs)) + 1],
                  to |-> cs[((k - 1) % Len(cs)) + 1] ] ] ]

\* parameters of the root's CREATE: id, type, content
RootRecord(n) ==
    [ id |-> n.id, type |-> n.node_type, content |-> n.content, level |-> Absent ]

\* parameters of a child's CREATE: id, type, content, level
ChildRecord(n) ==
    [ id |-> n.id, type |-> n.node_type, content |-> n.content, level |-> Present(n.level) ]

(***************************************************************************)
(* The work-stack loop shared by _create_nodes, _create_relationships,     *)
(* _assign_node_ids and the two _generate_*_queries                        *)
(***************************************************************************)
Top(stk) == stk[Len(stk)]
Pop(stk) == SubSeq(stk, 1, Len(stk) - 1)

\* child_index < len(parent.children), for the popped (parent, child_index)
HasChild(heap, stk) == Top(stk)[2] < Len(heap[Top(stk)[1]].children)

\* child = parent.children[child_index]
ChildOf(heap, stk) == heap[Top(stk)[1]].children[Top(stk)[2] + 1]

\* variant: (child, 0) is pushed below (parent, child_index + 1)
PushChildFirst(heap, stk) ==
    LET child == ChildOf(heap, stk)
    IN  (IF heap[child].children /= << >> THEN Pop(stk) \o << << child, 0 >> >> ELSE Pop(stk))
        \o << << Top(stk)[1], Top(stk)[2] + 1 >> >>

\* the stack after one iteration that found a child: (parent, child_index + 1)
\* pushed, then (child, 0) when the child has children
PushNext(heap, stk) ==
    LET child == ChildOf(heap, stk)
        kept == Pop(stk) \o << << Top(stk)[1], Top(stk)[2] + 1 >> >>
    IN  IF heap[child].children /= << >> THEN kept \o << << child, 0 >> >> ELSE kept

\* child.id = f"node_{node_count}"
SetId(heap, i, n) == [ heap EXCEPT ![i].id = NodeId(n) ]

(***************************************************************************)
(* Graph Reader                                                            *)
(***************************************************************************)
\* MATCH (n:Node {type: 'root'}) RETURN n: the matching records, in store order
RootRows(st) == SelectSeq(st.nodes, LAMBDA r : r.type = "root")

\* ORDER BY child.level, child.id, ascending, an absent level last
RowBefore(a, b) ==
    IF a.level = b.level THEN StrLess(a.id, b.id)
    ELSE IF a.level = Absent THEN FALSE
    ELSE IF b.level = Absent THEN TRUE
    ELSE a.level[1] < b.level[1]

RECURSIVE InsertRow(_, _)
InsertRow(sorted, r) ==
    IF sorted = << >> THEN << r >>
    ELSE IF RowBefore(r, Head(sorted)) THEN << r >> \o sorted
    ELSE << Head(sorted) >> \o InsertRow(Tail(sorted), r)

RECURSIVE SortRows(_)
SortRows(rows) ==
    IF rows = << >> THEN << >>
    ELSE InsertRow(SortRows(SubSeq(rows, 1, Len(rows) - 1)), rows[Len(rows)])

\* get_children(node_id)
GetChildren(st, node_id) ==
    LET es == SelectSeq(st.edges, LAMBDA e : st.nodes[e.from].id = node_id)
    IN  SortRows([ k \in 1..Len(es) |-> st.nodes[es[k].to] ])

\* "#" * level
Hashes(level) == [ k \in 1..level |-> "#" ]

\* variant: the stored level is not read
LevelAlways1(row) == 1

\* child.get("level", 1)
LevelOr1(row) == IF row.level = Absent THEN 1 ELSE row.level[1]

\* the lines _traverse_node appends for one child
Render(row) ==
    IF row.type = "heading"
    THEN << Hashes(LevelOr1(row)) \o << " " >> \o row.content, << >> >>
    ELSE IF row.type = "paragraph" THEN << row.content, << >> >>
    ELSE << >>

RECURSIVE Join(_)
\* "\n".join(lines)
Join(ls) ==
    IF ls = << >> THEN << >>
    ELSE IF Len(ls) = 1 THEN ls[1]
    ELSE ls[1] \o << "\n" >> \o Join(Tail(ls))

(***************************************************************************)
(* Commands: create-graph and traverse-graph (cli.py), one step per        *)
(* statement sent to the store. `ok` is the store's answer to a statement: *)
(* FALSE when session.run or the driver raises.                            *)
(***************************************************************************)
\* Block elements of the files given to create-graph: two heading levels, a
\* paragraph of two lines, a horizontal rule
CmdBlocks ==
    { Heading(1, << "a" >>), Heading(2, << "b" >>), Para(<< "c", "\n", "d" >>),
      El(<< "h", "r" >>, << >>, << >>, << >>) }

CmdDocs == { Div(k) : k \in SeqsUpTo(CmdBlocks, MaxDocLen) }

\* variant: the exception is swallowed and the caller goes on
RaiseAndContinue(class) ==
    /\ pc' = pc
    /\ failure' = failure \cup { class }

\* an exception leaves the statement's caller and reaches the command's except clause
Raise(class) ==
    /\ pc' = "raised"
    /\ failure' = failure \cup { class }

\* create_graph (cli.py), up to graph.connect(): credentials, open/read, parse
CreateGraphStart(doc, readable) ==
    /\ pc = "idle"
    /\ cmd' = "create"
    /\ IF ~readable
       THEN /\ Raise("input")
            /\ UNCHANGED << nodes, heading_stack, current_node, bstatus >>
       ELSE LET p == Parse(doc)
            IN  /\ bstatus' = p.status
                /\ IF p.status = "ValueError"
                   THEN /\ Raise("parse")
                        /\ UNCHANGED << nodes, heading_stack, current_node >>
                   ELSE /\ nodes' = p.nodes
                        /\ heading_stack' = p.heading_stack
                        /\ current_node' = p.current_node
                        /\ pc' = "connect"
                        /\ UNCHANGED failure
    /\ UNCHANGED << todo, driver, store, stack, node_count, issued, exit_code, log,
                    lines, pending, callid, markdown, stdout, script, written >>

\* traverse_graph (cli.py), up to graph.connect()
TraverseGraphStart ==
    /\ pc = "idle"
    /\ cmd' = "traverse"
    /\ pc' = "connect"
    /\ UNCHANGED << builderVars, driver, store, stack, node_count, issued, exit_code,
                    log, failure, lines, pending, callid, markdown, stdout, script,
                    written >>

\* Neo4jGraph.connect
Connect(ok) ==
    /\ pc = "connect"
    /\ IF ok
       THEN /\ driver' = "open"
            /\ pc' = IF cmd = "create" THEN "wipe" ELSE "get_root"
            /\ UNCHANGED << log, failure >>
       ELSE /\ log' = Append(log, "Failed to connect to Neo4j")
            /\ Raise("connect")
            /\ UNCHANGED driver
    /\ UNCHANGED << builderVars, cmd, store, stack, node_count, issued, exit_code,
                    lines, pending, callid, markdown, stdout, script, written >>

\* create_graph: self._execute_query("MATCH (n) DETACH DELETE n")
Wipe(ok) ==
    /\ pc = "wipe"
    /\ IF ok
       THEN /\ store' = WipeEffect(store)
            /\ written' = << >>
            /\ issued' = issued + 1
            /\ pc' = "create_root"
            /\ UNCHANGED failure
       ELSE /\ Raise("statement")
            /\ UNCHANGED << store, written, issued >>
    /\ UNCHANGED << builderVars, cmd, driver, stack, node_count, exit_code, log,
                    lines, pending, callid, markdown, stdout, script >>

\* _create_nodes, up to the loop: the root's id and its CREATE
CreateRoot(ok) ==
    /\ pc = "create_root"
    /\ nodes' = SetId(nodes, 1, 0)
    /\ IF ok
       THEN /\ store' = CreateNodeEffect(store, RootRecord(nodes'[1]))
            /\ issued' = issued + 1
            /\ stack' = << << 1, 0 >> >>
            /\ node_count' = 1
            /\ pc' = "create_nodes"
            /\ UNCHANGED failure
       ELSE /\ Raise("statement")
            /\ UNCHANGED << store, issued, stack, node_count >>
    /\ UNCHANGED << todo, heading_stack, current_node, bstatus, cmd, driver, exit_code,
                    log, lines, pending, callid, markdown, stdout, script, written >>

\* _create_nodes: one iteration of `while stack`
CreateNodesStep(ok) ==
    /\ pc = "create_nodes"
    /\ stack /= << >>
    /\ IF HasChild(nodes, stack)
       THEN LET child == ChildOf(nodes, stack)
            IN  /\ nodes' = SetId(nodes, child, node_count)
                /\ node_count' = node_count + 1
                /\ IF ok
                   THEN /\ store' = CreateNodeEffect(store, ChildRecord(nodes'[child]))
                        /\ issued' = issued + 1
                        /\ stack' = PushNext(nodes, stack)
                        /\ UNCHANGED << pc, failure >>
                   ELSE /\ Raise("statement")
                        /\ stack' = Pop(stack) \o << << Top(stack)[1], Top(stack)[2] + 1 >> >>
                        /\ UNCHANGED << store, issued >>
       ELSE /\ ok
            /\ stack' = Pop(stack)
            /\ UNCHANGED << nodes, node_count, store, issued, pc, failure >>
    /\ UNCHANGED << todo, heading_stack, current_node, bstatus, cmd, driver, exit_code,
                    log, lines, pending, callid, markdown, stdout, script, written >>

\* _create_nodes returns; _create_relationships starts with stack = [(root, 0)]
CreateNodesReturn ==
    /\ pc = "create_nodes"
    /\ stack = << >>
    /\ stack' = << << 1, 0 >> >>
    /\ pc' = "create_rels"
    /\ UNCHANGED << builderVars, cmd, driver, store, node_count, issued, exit_code, log,
                    failure, lines, pending, callid, markdown, stdout, script, written >>

\* _create_relationships: one iteration of `while stack`
CreateRelStep(ok) ==
    /\ pc = "create_rels"
    /\ stack /= << >>
    /\ IF HasChild(nodes, stack)
       THEN LET parent == Top(stack)[1]
                child == ChildOf(nodes, stack)
            IN  IF ok
                THEN /\ store' = CreateRelEffect(store, nodes[parent].id, nodes[child].id)
                     /\ issued' = issued + 1
                     /\ stack' = PushNext(nodes, stack)
                     /\ UNCHANGED << pc, failure >>
                ELSE /\ Raise("statement")
                     /\ stack' = Pop(stack) \o << << Top(stack)[1], Top(stack)[2] + 1 >> >>
                     /\ UNCHANGED << store, issued >>
       ELSE /\ ok
            /\ stack' = Pop(stack)
            /\ UNCHANGED << store, issued, pc, failure >>
    /\ UNCHANGED << builderVars, cmd, driver, node_count, exit_code, log, lines,
                    pending, callid, markdown, stdout, script, written >>

\* _create_relationships returns and create_graph returns
CreateGraphReturn ==
    /\ pc = "create_rels"
    /\ stack = << >>
    /\ written' = nodes
    /\ pc' = "cg_done"
    /\ UNCHANGED << builderVars, cmd, driver, store, stack, node_count, issued,
                    exit_code, log, failure, lines, pending, callid, markdown, stdout,
                    script >>

\* traverse_and_print, up to _traverse_node(root_node["id"], markdown_lines)
GetRootNode(ok) ==
    /\ pc = "get_root"
    /\ IF ~ok
       THEN /\ Raise("statement")
            /\ UNCHANGED << log, markdown, callid >>
       ELSE LET rows == RootRows(store)
            IN  IF rows = << >>
                THEN /\ log' = Append(log, "Root node not found in graph")
                     /\ failure' = failure \cup { "root_absent" }
                     /\ markdown' = << >>
                     /\ pc' = "print"
                     /\ UNCHANGED callid
                ELSE /\ callid' = rows[1].id
                     /\ pc' = "traverse"
                     /\ UNCHANGED << log, failure, markdown >>
    /\ UNCHANGED << builderVars, cmd, driver, store, stack, node_count, issued,
                    exit_code, lines, pending, stdout, script, written >>

\* _traverse_node: get_children(node_id), then the loop up to the next recursive
\* call, or up to the return of traverse_and_print when no child is left anywhere
TraverseNode(ok) ==
    /\ pc = "traverse"
    /\ IF ~ok
       THEN /\ Raise("statement")
            /\ UNCHANGED << lines, pending, callid, markdown >>
       ELSE LET work == GetChildren(store, callid) \o pending
            IN  IF work = << >>
                THEN /\ markdown' = Join(lines)
                     /\ pc' = "print"
                     /\ UNCHANGED << lines, pending, callid, failure >>
                ELSE /\ lines' = lines \o Render(Head(work))
                     /\ callid' = Head(work).id
                     /\ pending' = Tail(work)
                     /\ UNCHANGED << pc, markdown, failure >>
    /\ UNCHANGED << builderVars, cmd, driver, store, stack, node_count, issued,
                    exit_code, log, stdout, script, written >>

\* print(markdown)
PrintMarkdown ==
    /\ pc = "print"
    /\ stdout' = markdown \o << "\n" >>
    /\ pc' = "printed"
    /\ UNCHANGED << builderVars, cmd, driver, store, stack, node_count, issued,
                    exit_code, log, failure, lines, pending, callid, markdown, script,
                    written >>

\* graph.disconnect() on the path without exception, and the command returns
DisconnectAndReturn ==
    /\ pc \in { "cg_done", "printed" }
    /\ driver' = IF driver = "open" THEN "closed" ELSE driver
    /\ exit_code' = << 0 >>
    /\ pc' = "exited"
    /\ UNCHANGED << builderVars, cmd, store, stack, node_count, issued, log, failure,
                    lines, pending, callid, markdown, stdout, script, written >>

\* except Exception as e: logger.error(...); sys.exit(1)
CatchAndExit ==
    /\ pc = "raised"
    /\ log' = Append(log, IF cmd = "create" THEN "Error creating graph"
                                            ELSE "Error traversing graph")
    /\ exit_code' = << 1 >>
    /\ pc' = "exited"
    /\ UNCHANGED << builderVars, cmd, driver, store, stack, node_count, issued,
                    failure, lines, pending, callid, markdown, stdout, script, written >>

\* the process is gone; the next invocation starts from a fresh process and the
\* store as it was left
NextInvocation ==
    /\ pc = "exited"
    /\ todo' = << >>
    /\ nodes' = NewProcessor.nodes
    /\ heading_stack' = NewProcessor.heading_stack
    /\ current_node' = NewProcessor.current_node
    /\ bstatus' = "none"
    /\ pc' = "idle"
    /\ cmd' = "none"
    /\ driver' = "none"
    /\ stack' = << >>
    /\ node_count' = 0
    /\ issued' = 0
    /\ exit_code' = NoExit
    /\ log' = << >>
    /\ failure' = { }
    /\ lines' = << >>
    /\ pending' = << >>
    /\ callid' = << >>
    /\ markdown' = << >>
    /\ stdout' = << >>
    /\ UNCHANGED << store, script, written >>

InitCmd ==
    /\ todo = << >>
    /\ nodes = NewProcessor.nodes
    /\ heading_stack = NewProcessor.heading_stack
    /\ current_node = NewProcessor.current_node
    /\ bstatus = "none"
    /\ CmdIdle

NextCmd ==
    \/ \E doc \in CmdDocs, readable \in BOOLEAN : CreateGraphStart(doc, readable)
    \/ TraverseGraphStart
    \/ \E ok \in BOOLEAN : Connect(ok)
    \/ \E ok \in BOOLEAN : Wipe(ok)
    \/ \E ok \in BOOLEAN : CreateRoot(ok)
    \/ \E ok \in BOOLEAN : CreateNodesStep(ok)
    \/ CreateNodesReturn
    \/ \E ok \in BOOLEAN : CreateRelStep(ok)
    \/ CreateGraphReturn
    \/ \E ok \in BOOLEAN : GetRootNode(ok)
    \/ \E ok \in BOOLEAN : TraverseNode(ok)
    \/ PrintMarkdown
    \/ DisconnectAndReturn
    \/ CatchAndExit
    \/ NextInvocation

SpecCmd == InitCmd /\ [][NextCmd]_vars

(***************************************************************************)
(* Graph Writer, script mode: get_cypher_script and _assign_node_ids are   *)
(* pure, so each loop is run to its end by a recursive operator.           *)
(***************************************************************************)
RECURSIVE AssignLoop(_, _, _)
\* the `while stack` loop of _assign_node_ids
AssignLoop(heap, stk, count) ==
    IF stk = << >> THEN heap
    ELSE IF HasChild(heap, stk)
    THEN AssignLoop(SetId(heap, ChildOf(heap, stk), count), PushNext(heap, stk), count + 1)
    ELSE AssignLoop(heap, Pop(stk), count)

\* _assign_node_ids(root_node)
AssignNodeIds(heap) == AssignLoop(SetId(heap, 1, 0), << << 1, 0 >> >>, 1)

RECURSIVE Replace(_)
\* s.replace("'", "\\'")
Replace(s) ==
    IF s = << >> THEN << >>
    ELSE IF Head(s) = "'" THEN << "\\", "'" >> \o Replace(Tail(s))
    ELSE << Head(s) >> \o Replace(Tail(s))

\* _escape_string
EscapeString(s) == Replace(s)

\* A statement of the script: CREATE (node_k:Node {id: 'node_k', type: '<type>',
\* content: '<content>'[, level: <level>]}); `content` is the text between the quotes.
NodeQuery(n, child) ==
    [ kind |-> "create", id |-> NodeId(n), type |-> child.node_type,
      content |-> EscapeString(child.content),
      level |-> IF child.level > 0 THEN Present(child.level) ELSE Absent ]

\* "CREATE (node_0:Node {id: 'node_0', type: 'root', content: ''});"
RootQuery ==
    [ kind |-> "create", id |-> NodeId(0), type |-> "root", content |-> << >>,
      level |-> Absent ]

\* MATCH (parent:Node {id: '<parent.id>'}) MATCH (child:Node {id: '<child.id>'})
\* CREATE (parent)-[:CONTAINS]->(child);
RelQuery(parent, child) ==
    [ kind |-> "rel", parent_id |-> parent.id, child_id |-> child.id ]

RECURSIVE GenNodeLoop(_, _, _, _)
\* the `while stack` loop of _generate_node_queries: [heap, queries]
GenNodeLoop(heap, stk, count, queries) ==
    IF stk = << >> THEN [ heap |-> heap, queries |-> queries ]
    ELSE IF HasChild(heap, stk)
    THEN LET child == ChildOf(heap, stk)
         IN  GenNodeLoop(SetId(heap, child, count), PushNext(heap, stk), count + 1,
                         Append(queries, NodeQuery(count, heap[child])))
    ELSE GenNodeLoop(heap, Pop(stk), count, queries)

\* _generate_node_queries(root_node): [heap, queries]
GenerateNodeQueries(heap) ==
    GenNodeLoop(AssignNodeIds(heap), << << 1, 0 >> >>, 1, << RootQuery >>)

RECURSIVE GenRelLoop(_, _, _)
\* the `while stack` loop of _generate_relationship_queries
GenRelLoop(heap, stk, queries) ==
    IF stk = << >> THEN queries
    ELSE IF HasChild(heap, stk)
    THEN GenRelLoop(heap, PushNext(heap, stk),
                    Append(queries, RelQuery(heap[Top(stk)[1]], heap[ChildOf(heap, stk)])))
    ELSE GenRelLoop(heap, Pop(stk), queries)

\* _generate_relationship_queries(root_node)
GenerateRelationshipQueries(heap) == GenRelLoop(heap, << << 1, 0 >> >>, << >>)

Comment == [ kind |-> "comment" ]
Blank == [ kind |-> "blank" ]
WipeQuery == [ kind |-> "wipe" ]

\* get_cypher_script(root_node): the lines of the script, and the tree with its ids
GetCypherScript(heap) ==
    LET g == GenerateNodeQueries(heap)
    IN  [ heap |-> g.heap,
          lines |-> << Comment, WipeQuery, Blank, Comment >> \o g.queries
                    \o << Blank, Comment >> \o GenerateRelationshipQueries(g.heap) ]

(***************************************************************************)
(* Specification of the Graph Writer's methods, called directly (as the    *)
(* tests do) on any tree of MarkdownNode objects built with add_child      *)
(***************************************************************************)
\* MarkdownNode("heading", c, l) and MarkdownNode("paragraph", c)
NodeKinds ==
    { MarkdownNode("heading", << "a" >>, 1), MarkdownNode("heading", << "b" >>, 2),
      MarkdownNode("paragraph", << "c", "'" >>, 0) }

\* the tree of n nodes in which node i was add_child'ed to par[i], in the order of i
TreeOf(n, par, kind) ==
    [ i \in 1..n |->
        [ (IF i = 1 THEN MarkdownNode("root", << >>, 0) ELSE kind[i]) EXCEPT
            !.parent = IF i = 1 THEN 0 ELSE par[i],
            !.children = SelectSeq([ j \in 1..n |-> j],
                                   LAMBDA j : j >= 2 /\ par[j] = i) ] ]

Trees ==
    UNION { { TreeOf(n, par, kind) :
                par \in { f \in [ 2..n -> 1..n ] : \A i \in 2..n : f[i] < i },
                kind \in [ 2..n -> NodeKinds ] } : n \in 1..MaxNodes }

InitWriter ==
    /\ todo = << >>
    /\ nodes \in Trees
    /\ heading_stack = << >>
    /\ current_node = 0
    /\ bstatus = "none"
    /\ pc = "api"
    /\ cmd = "none"
    /\ driver = "open"
    /\ store = EmptyStore
    /\ stack = << >>
    /\ node_count = 0
    /\ issued = 0
    /\ exit_code = NoExit
    /\ log = << >>
    /\ failure = { }
    /\ lines = << >>
    /\ pending = << >>
    /\ callid = << >>
    /\ markdown = << >>
    /\ stdout = << >>
    /\ script = << >>
    /\ written = << >>

\* graph._assign_node_ids(root)
CallAssignNodeIds ==
    /\ pc = "api"
    /\ nodes' = AssignNodeIds(nodes)
    /\ UNCHANGED << todo, heading_stack, current_node, bstatus, cmdVars >>

\* script = graph.get_cypher_script(root)
CallGetCypherScript ==
    /\ pc = "api"
    /\ LET r == GetCypherScript(nodes)
       IN  /\ nodes' = r.heap
           /\ script' = r.lines
    /\ UNCHANGED << todo, heading_stack, current_node, bstatus, pc, cmd, driver, store,
                    stack, node_count, issued, exit_code, log, failure, lines, pending,
                    callid, markdown, stdout, written >>

\* graph.create_graph(root) is called
CallCreateGraph ==
    /\ pc = "api"
    /\ pc' = "wipe"
    /\ cmd' = "create"
    /\ issued' = 0
    /\ UNCHANGED << builderVars, driver, store, stack, node_count, exit_code, log,
                    failure, lines, pending, callid, markdown, stdout, script, written >>

\* graph.create_graph(root) has returned to the caller
CreateGraphReturned ==
    /\ pc = "cg_done"
    /\ pc' = "api"
    /\ cmd' = "none"
    /\ UNCHANGED << builderVars, driver, store, stack, node_count, issued, exit_code,
                    log, failure, lines, pending, callid, markdown, stdout, script,
                    written >>

NextWriter ==
    \/ CallAssignNodeIds
    \/ CallGetCypherScript
    \/ CallCreateGraph
    \/ Wipe(TRUE)
    \/ CreateRoot(TRUE)
    \/ CreateNodesStep(TRUE)
    \/ CreateNodesReturn
    \/ CreateRelStep(TRUE)
    \/ CreateGraphReturn
    \/ CreateGraphReturned

SpecWriter == InitWriter /\ [][NextWriter]_vars

(***************************************************************************)
(* Reference definitions used by the properties (not part of the program)  *)
(***************************************************************************)
RECURSIVE Preorder(_, _)
\* depth-first pre-order of the subtree at i, children in list order
Preorder(heap, i) ==
    << i >> \o Concat([ k \in 1..Len(heap[i].children) |->
                            Preorder(heap, heap[i].children[k]) ])

\* the statements create_graph is to issue for a tree, in order: the wipe, one node
\* creation per node in pre-order (ids by pre-order rank), one edge creation per
\* non-root node in pre-order
ExpectedStatements(heap) ==
    LET pre == Preorder(heap, 1)
        rank(i) == CHOOSE k \in 1..Len(pre) : pre[k] = i
        rec(k) == [ id |-> NodeId(k - 1), type |-> heap[pre[k]].node_type,
                    content |-> heap[pre[k]].content,
                    level |-> IF k = 1 THEN Absent ELSE Present(heap[pre[k]].level) ]
    IN  << [ op |-> "wipe" ] >>
        \o [ k \in 1..Len(pre) |-> [ op |-> "node", rec |-> rec(k) ] ]
        \o [ k \in 1..(Len(pre) - 1) |->
               [ op |-> "edge", parent_id |-> NodeId(rank(heap[pre[k + 1]].parent) - 1),
                 child_id |-> NodeId(k) ] ]

ApplyStatement(st, q) ==
    IF q.op = "wipe" THEN EmptyStore
    ELSE IF q.op = "node" THEN [ st EXCEPT !.nodes = Append(@, q.rec) ]
    ELSE LET p == CHOOSE i \in 1..Len(st.nodes) : st.nodes[i].id = q.parent_id
             c == CHOOSE i \in 1..Len(st.nodes) : st.nodes[i].id = q.child_id
         IN  [ st EXCEPT !.edges = Append(@, [ from |-> p, to |-> c ]) ]

RECURSIVE ApplyAll(_, _)
ApplyAll(st, qs) ==
    IF qs = << >> THEN st ELSE ApplyAll(ApplyStatement(st, Head(qs)), Tail(qs))

RECURSIVE Split(_)
\* s.split("\n")
Split(s) ==
    IF \A i \in 1..Len(s) : s[i] /= "\n" THEN << s >>
    ELSE LET i == CHOOSE j \in 1..Len(s) :
                      s[j] = "\n" /\ \A k \in 1..(j - 1) : s[k] /= "\n"
         IN  << SubSeq(s, 1, i - 1) >> \o Split(SubSeq(s, i + 1, Len(s)))

Count(sq, x) == Cardinality({ i \in 1..Len(sq) : sq[i] = x })

\* the Markdown line of a tree node
LineOf(n) ==
    IF n.node_type = "heading" THEN [ k \in 1..n.level |-> "#" ] \o << " " >> \o n.content
    ELSE n.content

RECURSIVE RenderedAs(_, _)
\* pre-order concatenation over the children lists the store returns, every
\* rendered node followed by a blank separator line
RenderedAs(st, id) ==
    LET cs == GetChildren(st, id)
    IN  Concat([ k \in 1..Len(cs) |->
                   (IF cs[k].type = "heading"
                    THEN [ j \in 1..LevelOr1(cs[k]) |-> "#" ] \o << " " >> \o cs[k].content
                         \o << "\n", "\n" >>
                    ELSE IF cs[k].type = "paragraph"
                    THEN cs[k].content \o << "\n", "\n" >>
                    ELSE << >>)
                   \o RenderedAs(st, cs[k].id) ])

RECURSIVE ReadLiteral(_)
\* the string a single-quoted script literal denotes, given the text after its
\* opening quote: a backslash takes the next character as it is, a quote ends it
ReadLiteral(t) ==
    IF t = << >> \/ Head(t) = "'" THEN << >>
    ELSE IF Head(t) = "\\" /\ Len(t) >= 2 THEN << t[2] >> \o ReadLiteral(Tail(Tail(t)))
    ELSE << Head(t) >> \o ReadLiteral(Tail(t))

FourFailureClasses == { "input", "connect", "statement", "root_absent" }

(***************************************************************************)
(* Properties                                                              *)
(***************************************************************************)

\* C1: every heading of level L (1..6) is a direct child of the nearest preceding
\* heading of strictly smaller level, or of root when there is none; and after
\* every step the heading stack starts with root and has strictly increasing levels.
C1_HeadingNesting ==
    /\ \A i \in 2..Len(nodes) :
         nodes[i].node_type = "heading" =>
           LET smaller == { j \in 2..(i - 1) : /\ nodes[j].node_type = "heading"
                                              /\ nodes[j].level < nodes[i].level }
               nearest == IF smaller = { } THEN 1
                          ELSE CHOOSE j \in smaller : \A k \in smaller : k <= j
           IN  /\ nodes[i].level \in 1..6
               /\ nodes[i].parent = nearest
               /\ Count(nodes[nearest].children, i) = 1
               /\ \A j \in 1..Len(nodes) : j /= nearest => Count(nodes[j].children, i) = 0
    /\ heading_stack /= << >>
    /\ heading_stack[1] = 1
    /\ \A k \in 1..(Len(heading_stack) - 1) :
         nodes[heading_stack[k]].level < nodes[heading_stack[k + 1]].level

\* C1 witness: a heading was attached, after popping a deeper heading, to a heading
\* that is not the one just before it
C1_Witness ==
    /\ bstatus = "done"
    /\ \E i \in 2..Len(nodes) :
         /\ nodes[i].node_type = "heading"
         /\ nodes[i].parent > 1
         /\ \E j \in (nodes[i].parent + 1)..(i - 1) :
              nodes[j].node_type = "heading" /\ nodes[j].level >= nodes[i].level

\* C2: when create_graph(T) has completed, the store holds exactly one node record per
\* node of T and exactly one CONTAINS edge per parent-child pair, parent to child,
\* and nothing else, whatever the store held before.
C2_StoreHoldsExactlyTheTree ==
    (pc = "cg_done") =>
        /\ Len(store.nodes) = Len(nodes)
        /\ \A i \in 1..Len(nodes) :
             Cardinality({ p \in 1..Len(store.nodes) :
                             /\ store.nodes[p].id = nodes[i].id
                             /\ store.nodes[p].type = nodes[i].node_type
                             /\ store.nodes[p].content = nodes[i].content }) = 1
        /\ Len(store.edges) = Len(nodes) - 1
        /\ \A i \in 2..Len(nodes) :
             Cardinality({ e \in 1..Len(store.edges) :
                             /\ store.nodes[store.edges[e].from].id = nodes[nodes[i].parent].id
                             /\ store.nodes[store.edges[e].to].id = nodes[i].id }) = 1

\* C2 witness: create_graph completed for a tree of at least three nodes
C2_Witness ==
    /\ pc = "cg_done"
    /\ Len(nodes) >= 3
    /\ Len(store.edges) >= 2

\* C3: traverse_and_print returns the pre-order concatenation of the renderings,
\* every rendered node, the last included, followed by a blank separator line.
C3_EveryNodeFollowedByBlankLine ==
    (cmd = "traverse" /\ pc = "printed" /\ failure = { }) =>
        markdown = RenderedAs(store, RootRows(store)[1].id)

\* C4: a command exits with code 1 whenever one of the four failure classes occurred
\* during it, and with code 0 only when none did.
C4_ExitCodeOneOnEveryFailure ==
    (pc = "exited") =>
        /\ (failure \cap FourFailureClasses /= { }) => exit_code = << 1 >>
        /\ (exit_code = << 0 >>) => (failure \cap FourFailureClasses = { })

\* C5: when a command ends, the store connection it opened is closed, on the success
\* path and on every failure path.
C5_ConnectionClosedAtEnd ==
    (pc = "exited") => driver /= "open"

\* C6 as claimed: the non-blank lines of the output are, as a multiset, exactly one
\* line per node of T: level '#', a space and the content for a heading, the content
\* for a paragraph.
C6_OneLinePerNode ==
    (cmd = "traverse" /\ written /= << >> /\ pc = "printed" /\ failure = { }) =>
        LET out == SelectSeq(Split(markdown), LAMBDA l : l /= << >>)
            exp == [ k \in 1..(Len(written) - 1) |-> LineOf(written[k + 1]) ]
        IN  /\ Len(out) = Len(exp)
            /\ \A k \in 1..Len(exp) : Count(out, exp[k]) = Count(exp, exp[k])

\* C6 amended: writing a Tree Builder tree T with create_graph and then running
\* traverse_and_print yields an output made of one rendering per node of T, each
\* followed by a blank separator line: level '#', a space and the content for a
\* heading, the content (several lines when it holds newlines) for a paragraph; each
\* node is rendered exactly once and nothing else is, order aside, so the traversal
\* ends after at most one step per node. The separator after the last rendering is
\* a single newline, and the output of a tree with no node but root is empty.
C6_RoundTripRenderings ==
    (cmd = "traverse" /\ written /= << >>) =>
        LET n == Len(written) - 1
        IN  /\ Len(lines) <= 2 * n
            /\ (pc = "printed" /\ failure = { }) =>
                 LET got == [ k \in 1..n |-> lines[2 * k - 1] ]
                     exp == [ k \in 1..n |-> LineOf(written[k + 1]) ]
                 IN  /\ Len(lines) = 2 * n
                     /\ \A k \in 1..n : lines[2 * k] = << >>
                     /\ \A k \in 1..n : Count(got, exp[k]) = Count(exp, exp[k])
                     /\ (n = 0) => markdown = << >>
                     /\ (n > 0) => markdown \o << "\n" >>
                          = Concat([ k \in 1..n |-> got[k] \o << "\n", "\n" >> ])

\* C6 witness: a written tree with a level-2 heading and a two-line paragraph was
\* read back
C6_Witness ==
    /\ cmd = "traverse"
    /\ pc = "printed"
    /\ failure = { }
    /\ written /= << >>
    /\ \E i \in 1..Len(written) : written[i].level = 2
    /\ \E i \in 1..Len(written) :
         /\ written[i].node_type = "paragraph"
         /\ Count(written[i].content, "\n") = 1
    /\ Len(lines) >= 4

\* C7: root gets node_0 and the k-th node in depth-first pre-order gets node_k; the
\* ids are pairwise distinct and are exactly node_0..node_(N-1); repeating the
\* assignment, or assigning through create_graph or get_cypher_script, gives the
\* same ids.
C7_PreorderIds ==
    LET pre == Preorder(nodes, 1)
        n == Len(nodes)
    IN  /\ \A k \in 1..n : nodes[pre[k]].id \in { NoneId, NodeId(k - 1) }
        /\ (pc = "api" /\ nodes[1].id /= NoneId) =>
             /\ \A k \in 1..n : nodes[pre[k]].id = NodeId(k - 1)
             /\ \A i, j \in 1..n : i /= j => nodes[i].id /= nodes[j].id
             /\ { nodes[i].id : i \in 1..n } = { NodeId(k) : k \in 0..(n - 1) }
        /\ (pc = "api" /\ written /= << >>) =>
             \A k \in 1..n : /\ store.nodes[k].id = NodeId(k - 1)
                             /\ store.nodes[k].type = nodes[pre[k]].node_type
        /\ (script /= << >>) =>
             LET qs == SelectSeq(script, LAMBDA q : q.kind = "create")
             IN  /\ Len(qs) = n
                 /\ \A k \in 1..n : /\ qs[k].id = NodeId(k - 1)
                                    /\ qs[k].type = nodes[pre[k]].node_type

\* C7 witness: ids were assigned, by both modes, to a four-node tree whose pre-order
\* differs from the order in which its nodes were made
C7_Witness ==
    /\ pc = "api"
    /\ written /= << >>
    /\ script /= << >>
    /\ Len(nodes) >= 4
    /\ \E k \in 1..Len(nodes) : Preorder(nodes, 1)[k] /= k

\* C8: the Tree Builder raises no error on any element tree of the block parser.
C8_BuilderRaisesNoError ==
    bstatus /= "ValueError"

\* C9: when a statement of a create-graph run fails, the store holds exactly the
\* effects of the statements before it and keeps them (no rollback, no retry, no
\* later statement), and the run ends with an ERROR message and exit code 1.
C9_PartialWriteKeptAndReported ==
    [][ (cmd = "create" /\ "statement" \in failure') =>
          /\ store' = store
          /\ issued' = issued
          /\ store = ApplyAll(store, SubSeq(ExpectedStatements(nodes), 1, issued))
          /\ pc' \in { "raised", "exited" }
          /\ (pc' = "exited") =>
               /\ exit_code' = << 1 >>
               /\ log' /= << >>
               /\ log'[Len(log')] = "Error creating graph" ]_vars

\* C9 witness: a run failed after the wipe and two node creations and has exited
C9_Witness ==
    /\ cmd = "create"
    /\ pc = "exited"
    /\ "statement" \in failure
    /\ issued = 3
    /\ Len(store.nodes) = 2

\* C10: the node records written by create_graph and those the script of
\* get_cypher_script creates agree on id, type, content and level, level being
\* absent on root and on paragraphs in both modes; and the edges are the same.
C10_ModesAgree ==
    (pc = "api" /\ written /= << >> /\ script /= << >>) =>
        LET qs == SelectSeq(script, LAMBDA q : q.kind = "create")
            rs == SelectSeq(script, LAMBDA q : q.kind = "rel")
        IN  /\ Len(qs) = Len(store.nodes)
            /\ \A k \in 1..Len(qs) :
                 /\ qs[k].id = store.nodes[k].id
                 /\ qs[k].type = store.nodes[k].type
                 /\ ReadLiteral(qs[k].content \o << "'" >>) = store.nodes[k].content
                 /\ qs[k].level = store.nodes[k].level
                 /\ (store.nodes[k].type /= "heading") => store.nodes[k].level = Absent
            /\ Len(rs) = Len(store.edges)
            /\ \A k \in 1..Len(rs) :
                 /\ rs[k].parent_id = store.nodes[store.edges[k].from].id
                 /\ rs[k].child_id = store.nodes[store.edges[k].to].id

(***************************************************************************)
(* Specification of write-then-read on wide documents: one heading and,    *)
(* under it, up to MaxSiblings paragraphs or up to MaxSiblings headings of *)
(* one level, every statement succeeding                                   *)
(***************************************************************************)
\* the text of the i-th sibling: "x" and its number
SiblingText(i) == << "x" >> \o Decimal(i)

WideDocs ==
    { Div(<< Heading(1, << "a" >>) >> \o [ i \in 1..k |-> Para(SiblingText(i)) ]) :
        k \in 0..MaxSiblings }
    \cup { Div(<< Heading(1, << "a" >>) >> \o [ i \in 1..k |-> Heading(2, SiblingText(i)) ]) :
             k \in 0..MaxSiblings }

NextOrder ==
    \/ \E doc \in WideDocs : CreateGraphStart(doc, TRUE)
    \/ TraverseGraphStart
    \/ Connect(TRUE)
    \/ Wipe(TRUE)
    \/ CreateRoot(TRUE)
    \/ CreateNodesStep(TRUE)
    \/ CreateNodesReturn
    \/ CreateRelStep(TRUE)
    \/ CreateGraphReturn
    \/ GetRootNode(TRUE)
    \/ TraverseNode(TRUE)
    \/ PrintMarkdown
    \/ DisconnectAndReturn
    \/ NextInvocation

SpecOrder == InitCmd /\ [][NextOrder]_vars

PosOf(sq, x) == CHOOSE k \in 1..Len(sq) : sq[k] = x

\* C11: siblings of equal level under one parent are returned by get_children, and
\* so rendered by traverse_and_print, in their original document order, whatever
\* the number of nodes of the tree.
C11_EqualLevelSiblingsInDocumentOrder ==
    (cmd = "traverse" /\ pc = "printed" /\ failure = { } /\ written /= << >>) =>
        \A i \in 1..Len(written) :
            LET ch == written[i].children
                ids == [ k \in 1..Len(GetChildren(store, written[i].id)) |->
                           GetChildren(store, written[i].id)[k].id ]
            IN  \A a, b \in 1..Len(ch) :
                    (a < b /\ written[ch[a]].level = written[ch[b]].level) =>
                        /\ PosOf(ids, written[ch[a]].id) < PosOf(ids, written[ch[b]].id)
                        /\ PosOf(lines, LineOf(written[ch[a]]))
                             < PosOf(lines, LineOf(written[ch[b]]))

\* C12: an element whose trimmed inner text is empty is skipped by the Tree
\* Builder, heading or paragraph: no node with empty content is ever added to the
\* tree, and the step on such an element changes neither the tree, nor the heading
\* stack, nor the current node.
C12_EmptyElementsSkipped ==
    /\ [](\A i \in 2..Len(nodes) : nodes[i].content /= << >>)
    /\ [][ (bstatus = "running" /\ todo /= << >>
              /\ Strip(IterText(Head(todo))) = << >>) =>
             /\ nodes' = nodes
             /\ heading_stack' = heading_stack
             /\ current_node' = current_node ]_vars

(***************************************************************************)
(* Specification of script generation on a root with one child, heading or *)
(* paragraph, whose content is any string of quotes, backslashes and "a"   *)
(***************************************************************************)
ContentAlphabet == { "a", "'", "\\" }

Contents == SeqsUpTo(ContentAlphabet, MaxContentLen)

\* root.add_child(MarkdownNode("paragraph", c)) or
\* root.add_child(MarkdownNode("heading", c, 1))
QuotedKinds ==
    { MarkdownNode("paragraph", c, 0) : c \in Contents }
    \cup { MarkdownNode("heading", c, 1) : c \in Contents }

QuotedTrees ==
    { TreeOf(2, [ i \in 2..2 |-> 1 ], [ i \in 2..2 |-> kind ]) : kind \in QuotedKinds }

InitQuoted ==
    /\ todo = << >>
    /\ nodes \in QuotedTrees
    /\ heading_stack = << >>
    /\ current_node = 0
    /\ bstatus = "none"
    /\ pc = "api"
    /\ cmd = "none"
    /\ driver = "open"
    /\ store = EmptyStore
    /\ stack = << >>
    /\ node_count = 0
    /\ issued = 0
    /\ exit_code = NoExit
    /\ log = << >>
    /\ failure = { }
    /\ lines = << >>
    /\ pending = << >>
    /\ callid = << >>
    /\ markdown = << >>
    /\ stdout = << >>
    /\ script = << >>
    /\ written = << >>

NextQuoted == CallAssignNodeIds \/ CallGetCypherScript

SpecQuoted == InitQuoted /\ [][NextQuoted]_vars

\* The text of a creation statement after the opening quote of its content
\* literal: the escaped content, the closing quote, the level if any, and "});"
AfterContentQuote(q) ==
    q.content \o << "'" >>
    \o (IF q.level = Absent THEN << >>
        ELSE << ",", " ", "l", "e", "v", "e", "l", ":", " " >> \o Decimal(q.level[1]))
    \o << "}", ")", ";" >>

RECURSIVE LiteralEnd(_)
\* the position in t, the text after a literal's opening quote, of the quote that
\* closes the literal (a backslash takes the next character as it is); 0 if none
LiteralEnd(t) ==
    IF t = << >> THEN 0
    ELSE IF Head(t) = "'" THEN 1
    ELSE IF Head(t) = "\\" /\ Len(t) >= 2
         THEN LET r == LiteralEnd(Tail(Tail(t))) IN IF r = 0 THEN 0 ELSE r + 2
         ELSE LET r == LiteralEnd(Tail(t)) IN IF r = 0 THEN 0 ELSE r + 1

\* C13: in the script of get_cypher_script, for every content over an alphabet with
\* the single quote and the backslash, the content literal of the node's creation
\* statement is closed by the statement's own closing quote and by no earlier
\* character, and the literal read back under the escape rules is the content.
C13_ContentLiteralRoundTrips ==
    (script /= << >>) =>
        \A i \in 2..Len(nodes) : \A k \in 1..Len(script) :
            (script[k].kind = "create" /\ script[k].id = nodes[i].id) =>
                /\ LiteralEnd(AfterContentQuote(script[k])) = Len(script[k].content) + 1
                /\ ReadLiteral(AfterContentQuote(script[k])) = nodes[i].content

====
